---- MODULE Spec2Model ----
(***************************************************************************)
(* Model of init_script.py: the deployment-time script that stages the     *)
(* label file and the GPU-specific model engine file under                 *)
(* /output/deepstream_models/<version>/.                                   *)
(*                                                                         *)
(* Python strings that the script parses are sequences of one-character    *)
(* strings, so that the two regular-expression searches and the substring  *)
(* tests are computed position by position as re.search and `in` do.       *)
(***************************************************************************)
EXTENDS Integers, Sequences, FiniteSets, TLC

\* Longest tail (in characters) of a generated config path.
MaxLen == 3
\* Number of invocations of the script against the same /output volume.
MaxRuns == 2

----------------------------------------------------------------------------
\* Character-level helpers

SetMin(S) == CHOOSE x \in S : \A y \in S : x <= y
SetMax(S) == CHOOSE x \in S : \A y \in S : x >= y

\* lit occupies the Len(lit) characters of s that end at offset p
\* (p = number of characters of s before the current position).
EndsAt(s, p, lit) ==
    /\ p >= Len(lit)
    /\ p <= Len(s)
    /\ SubSeq(s, p - Len(lit) + 1, p) = lit

\* Python `sub in s` on strings.
Contains(s, sub) ==
    \E i \in 1..(Len(s) - Len(sub) + 1) : SubSeq(s, i, i + Len(sub) - 1) = sub

Whitespace == {" ", "\n"}

RECURSIVE lstrip(_)
lstrip(s) == IF s # <<>> /\ Head(s) \in Whitespace THEN lstrip(Tail(s)) ELSE s

RECURSIVE rstrip(_)
rstrip(s) ==
    IF s # <<>> /\ s[Len(s)] \in Whitespace
    THEN rstrip(SubSeq(s, 1, Len(s) - 1))
    ELSE s

\* str.strip()
strip(s) == rstrip(lstrip(s))

\* All sequences over A of length at most n.
RECURSIVE SeqsUpTo(_, _)
SeqsUpTo(A, n) ==
    IF n = 0 THEN {<<>>}
    ELSE LET shorter == SeqsUpTo(A, n - 1)
         IN  shorter \cup {Append(s, a) : s \in shorter, a \in A}

----------------------------------------------------------------------------
\* extract_model_version

\* The literal "/output/deepstream_models/" of the look-behind.
Prefix == <<"/","o","u","t","p","u","t","/","d","e","e","p","s","t","r","e",
            "a","m","_","m","o","d","e","l","s","/">>

\* Offsets at which the look-behind (?<=/output/deepstream_models/) holds.
LookbehindOffsets(s) == {p \in 0..Len(s) : EndsAt(s, p, Prefix)}

\* Lengths k for which `.*` can take k characters at offset p (no newline among
\* them) and the look-ahead (?=/) then holds.
VersionLengths(s, p) ==
    {k \in 0..(Len(s) - p) :
        /\ \A j \in 1..k : s[p + j] # "\n"
        /\ p + k + 1 <= Len(s)
        /\ s[p + k + 1] = "/"}

\* re.search: the leftmost offset with a match, and there the longest `.*`.
\* A match object is truthy whatever text it matched, so `if match:` only
\* separates "matched" from "no match".
extract_model_version(model_dir_configmap) ==
    LET starts == {p \in LookbehindOffsets(model_dir_configmap) :
                      VersionLengths(model_dir_configmap, p) # {}}
    IN  IF starts = {}
        THEN [raised |-> "ScriptError", value |-> <<>>]
        ELSE LET p == SetMin(starts)
                 k == SetMax(VersionLengths(model_dir_configmap, p))
             IN  [raised |-> "", value |-> SubSeq(model_dir_configmap, p + 1, p + k)]

----------------------------------------------------------------------------
\* get_auth_credentials

\* A JSON field of the registry entry: missing, the empty string, or a value.
FieldAbsent == "<absent>"
FieldVals == {FieldAbsent, "", "u"}

\* Value of an unset environment variable / an unassigned local.
None == "<None>"

\* The dockerconfigjson environment variable.  kind: "unset" (os.getenv gives
\* None), "empty" (""), "malformed" (not JSON), "noauths" (JSON without the
\* "auths" key), "json" ({"auths": {r: {username, password} for r in registries}}).
DockerConfigs ==
    {[kind |-> k, registries |-> {}, username |-> FieldAbsent, password |-> FieldAbsent] :
        k \in {"unset", "empty", "malformed", "noauths"}}
    \cup
    {[kind |-> "json", registries |-> rs, username |-> u, password |-> pw] :
        rs \in {{}, {"prod"}}, u \in FieldVals, pw \in FieldVals}

UnsetDockerConfig ==
    [kind |-> "unset", registries |-> {}, username |-> FieldAbsent, password |-> FieldAbsent]

\* The JFROG_ENV environment variable.
JfrogEnvs == {None, "", "prod", "dev"}

\* `not x` for a string value (a present JSON field or an environment variable)
Falsy(x) == x \in {"", None}

\* Only the username is tested for emptiness.
get_auth_credentials_username_only(dockerconfigjson, jfrog_env) ==
    IF dockerconfigjson.kind # "json"
    THEN [raised |-> "Exception", username |-> None, password |-> None]
    ELSE IF jfrog_env \notin dockerconfigjson.registries
    THEN [raised |-> "Exception", username |-> None, password |-> None]
    ELSE IF dockerconfigjson.username = FieldAbsent \/ dockerconfigjson.password = FieldAbsent
    THEN [raised |-> "Exception", username |-> None, password |-> None]
    ELSE IF Falsy(dockerconfigjson.username)
    THEN [raised |-> "ScriptError", username |-> None, password |-> None]
    ELSE [raised |-> "", username |-> dockerconfigjson.username,
          password |-> dockerconfigjson.password]

\* json.loads raises on None / "" / malformed text, the subscripts raise
\* KeyError on a missing key (all plain exceptions); an empty username or
\* password raises ScriptError.
get_auth_credentials(dockerconfigjson, jfrog_env) ==
    IF dockerconfigjson.kind \in {"unset", "empty", "malformed", "noauths"}
    THEN [raised |-> "Exception", username |-> None, password |-> None]
    ELSE IF jfrog_env \notin dockerconfigjson.registries
    THEN [raised |-> "Exception", username |-> None, password |-> None]
    ELSE IF dockerconfigjson.username = FieldAbsent \/ dockerconfigjson.password = FieldAbsent
    THEN [raised |-> "Exception", username |-> None, password |-> None]
    ELSE IF Falsy(dockerconfigjson.username) \/ Falsy(dockerconfigjson.password)
    THEN [raised |-> "ScriptError", username |-> None, password |-> None]
    ELSE [raised |-> "", username |-> dockerconfigjson.username,
          password |-> dockerconfigjson.password]

----------------------------------------------------------------------------
\* get_gpu_model

\* stdout of `nvidia-smi -L` on a zero exit status.
NvidiaSmiOutputs ==
    { <<"0", ":", " ", "A", "2">>,
      <<" ", "0", ":", " ", "A", "1", "6", "-", "Q", "\n">>,
      <<"0", ":", " ", "A", "1", "0", "0">>,
      <<"0", ":", " ", "A", "1", "6", " ", "A", "2">>,
      <<"0", ":", " ", "\n", "1", ":", " ", "A", "2">>,
      <<"0", ":", " ">>,
      <<>> }

NoGpu == [isNone |-> TRUE, str |-> <<>>]

\* .decode().strip(), then re.search(r'(?<=: ).*'): leftmost offset preceded by
\* ": ", and from there every character up to the next newline.
gpu_regex(stdout) ==
    LET gpu_info == strip(stdout)
        starts == {p \in 0..Len(gpu_info) : EndsAt(gpu_info, p, <<":", " ">>)}
    IN  IF starts = {}
        THEN NoGpu
        ELSE LET p == SetMin(starts)
                 k == SetMax({n \in 0..(Len(gpu_info) - p) :
                                 \A j \in 1..n : gpu_info[p + j] # "\n"})
             IN  [isNone |-> FALSE, str |-> SubSeq(gpu_info, p + 1, p + k)]

----------------------------------------------------------------------------
\* verify_md5

Absent == "<absent>"
Contents == {"c1", "c2", "c3"}

\* hashlib.md5 over the whole file content.  MD5 is not injective: c2 and c3
\* stand for two contents with the same digest.
hashlib_md5(content) ==
    CASE content = "c1" -> "d1"
      [] content = "c2" -> "d2"
      [] content = "c3" -> "d2"

\* checksums.md5 values the storage API can report; "d0" is the digest of
\* no content in Contents.
ReportedDigests == {"d0", "d1", "d2"}

\* The comparison result is ignored.
verify_md5_always_passes(content, expected_md5) == TRUE

\* TRUE when the digest matches (no ScriptError raised).
verify_md5(content, expected_md5) == hashlib_md5(content) = expected_md5

----------------------------------------------------------------------------
\* State

VARIABLES
    pc,                  \* the call of main() to execute next, or "exited"
    exit_code,           \* process exit status; -1 while the process runs
    err,                 \* the exception caught by main()'s handlers
    run,                 \* which invocation of the script this is
    config_file,         \* /config/config-infer-primary-bot.yaml
    output_exists,       \* whether /output exists
    model_dir_exists,    \* whether /output/deepstream_models/<version> exists
    files,               \* content of each file the script reads or writes
    cwd,                 \* working directory of the process
    model_dir_configmap, \* locals of main()
    model_version,
    dockerconfigjson,
    jfrog_env,
    username,
    password,
    gpu_model,
    local_path,          \* locals of download_and_check_model_file()
    jfrog_checksum,
    calls,               \* external calls with side effects made by this run
    prev_exit,           \* exit status of the previous invocation (-1: none)
    start_files          \* files as they were when this invocation started

fsvars == <<output_exists, model_dir_exists, files, cwd>>
mainlocals == <<model_dir_configmap, model_version, dockerconfigjson, jfrog_env,
                username, password, gpu_model>>
fnlocals == <<local_path, jfrog_checksum>>
history == <<run, config_file, prev_exit, start_files>>
vars == <<pc, exit_code, err, fsvars, mainlocals, fnlocals, calls, history>>

\* Files, named by the role of their path.  label_file and model_file are the
\* destination paths under /output/deepstream_models/<version>/; the other
\* three are the names curl -O writes in the working directory.
LabelBase == "labels.txt"
A2Base == "A2_model.onnx_b1_gpu0_fp16.engine"
A16Base == "A16_model.onnx_b1_gpu0_fp16.engine"
FileNames == {"label_file", "model_file", LabelBase, A2Base, A16Base}

NoErr == [kind |-> "", msg |-> "", at |-> ""]

\* Config paths of the form <head>/output/deepstream_models/<tail> and paths
\* without the literal.
Alphabet == {"/", "v", "m"}
Tails == SeqsUpTo(Alphabet, MaxLen)
ConfigPaths ==
    {Prefix \o t : t \in Tails}
    \cup {<<"/", "c">> \o Prefix \o t : t \in {<<>>, <<"v", "/">>, <<"v", "/", "m">>}}
    \cup {Prefix \o <<"v", "/", "s", "/", "m">>, <<"/", "m", "/">>, <<>>}

ConfigFiles ==
    {[kind |-> "ok", value |-> path] : path \in ConfigPaths}
    \cup {[kind |-> "missing", value |-> <<>>], [kind |-> "nokey", value |-> <<>>]}

NoFiles == [f \in FileNames |-> Absent]

Init ==
    /\ pc = "read_yaml_config"
    /\ exit_code = -1
    /\ err = NoErr
    /\ run = 1
    /\ config_file \in ConfigFiles
    /\ output_exists \in BOOLEAN
    /\ model_dir_exists \in (IF output_exists THEN BOOLEAN ELSE {FALSE})
    /\ files \in (IF model_dir_exists
                  THEN {[NoFiles EXCEPT !["label_file"] = l, !["model_file"] = m] :
                           l \in {Absent, "c1"}, m \in {Absent, "c1"}}
                  ELSE {NoFiles})
    /\ cwd = "/"
    /\ model_dir_configmap = <<>>
    /\ model_version = <<>>
    /\ dockerconfigjson = UnsetDockerConfig
    /\ jfrog_env = None
    /\ username = None
    /\ password = None
    /\ gpu_model = NoGpu
    /\ local_path = None
    /\ jfrog_checksum = None
    /\ calls = <<>>
    /\ prev_exit = -1
    /\ start_files = files

----------------------------------------------------------------------------
\* main(): the error boundary

\* The second handler logs without exiting.
main_except_swallows_unexpected(kind) ==
    CASE kind = "ScriptError" -> 1
      [] OTHER -> 0

\* except ScriptError: exit(1); except Exception: exit(1)
main_except(kind) ==
    CASE kind = "ScriptError" -> 1
      [] OTHER -> 1

\* An exception of the given kind propagates from the current call to main().
Raise(kind, msg) ==
    /\ pc' = "exited"
    /\ exit_code' = main_except(kind)
    /\ err' = [kind |-> kind, msg |-> msg, at |-> pc]

\* The current call returns and main() goes on with the call `next`.
Goto(next) ==
    /\ pc' = next
    /\ UNCHANGED <<exit_code, err>>

Call(op, arg) == [op |-> op, arg |-> arg, step |-> pc]

----------------------------------------------------------------------------
\* Helpers with side effects

\* The existence test never finds the file.
os_path_isfile_never(path) == FALSE

\* os.path.isfile(path)
os_path_isfile(path) == files[path] # Absent

\* run_curl_command(url, username, password, local_path), url ending in
\* `base`: curl -O writes `base` in the working directory, os.rename moves it
\* to local_path; a curl failure (which may leave a partial file) or a rename
\* failure raises ScriptError.  On success main() goes on with `next`.
run_curl_command(base, dest, next) ==
    /\ calls' = Append(calls, Call("curl -O", base))
    /\ \E outcome \in {"curl_failed", "rename_failed", "ok"}, c \in Contents \cup {Absent} :
         CASE outcome = "curl_failed" ->
                /\ files' = IF c = Absent THEN files ELSE [files EXCEPT ![base] = c]
                /\ Raise("ScriptError", "Error downloading file")
           [] outcome = "rename_failed" ->
                /\ c # Absent
                /\ base # dest
                /\ files' = [files EXCEPT ![base] = c]
                /\ Raise("ScriptError", "Error downloading file")
           [] outcome = "ok" ->
                /\ c # Absent
                /\ files' = [files EXCEPT ![base] = Absent, ![dest] = c]
                /\ Goto(next)

----------------------------------------------------------------------------
\* main(), one action per call

main_read_yaml_config ==
    /\ pc = "read_yaml_config"
    /\ CASE config_file.kind = "missing" ->
              Raise("Exception", "FileNotFoundError") /\ UNCHANGED model_dir_configmap
         [] config_file.kind = "nokey" ->
              Raise("Exception", "KeyError") /\ UNCHANGED model_dir_configmap
         [] config_file.kind = "ok" ->
              Goto("extract_model_version") /\ model_dir_configmap' = config_file.value
    /\ UNCHANGED <<fsvars, model_version, dockerconfigjson, jfrog_env, username,
                   password, gpu_model, fnlocals, calls, history>>

main_extract_model_version ==
    /\ pc = "extract_model_version"
    /\ LET r == extract_model_version(model_dir_configmap)
       IN  IF r.raised # ""
           THEN Raise(r.raised, "Error extracting model version from path.")
                /\ UNCHANGED model_version
           ELSE Goto("getenv") /\ model_version' = r.value
    /\ UNCHANGED <<fsvars, model_dir_configmap, dockerconfigjson, jfrog_env, username,
                   password, gpu_model, fnlocals, calls, history>>

main_getenv ==
    /\ pc = "getenv"
    /\ \E d \in DockerConfigs, e \in JfrogEnvs :
         /\ dockerconfigjson' = d
         /\ jfrog_env' = e
         /\ IF d.kind \in {"unset", "empty"} \/ Falsy(e)
            THEN Raise("ScriptError", "Docker config or JFrog environment variable not set.")
            ELSE Goto("get_auth_credentials")
    /\ UNCHANGED <<fsvars, model_dir_configmap, model_version, username, password,
                   gpu_model, fnlocals, calls, history>>

main_get_auth_credentials ==
    /\ pc = "get_auth_credentials"
    /\ LET r == get_auth_credentials(dockerconfigjson, jfrog_env)
       IN  IF r.raised # ""
           THEN Raise(r.raised, "Failed to retrieve username or password")
                /\ UNCHANGED <<username, password>>
           ELSE /\ Goto("chdir")
                /\ username' = r.username
                /\ password' = r.password
    /\ UNCHANGED <<fsvars, model_dir_configmap, model_version, dockerconfigjson,
                   jfrog_env, gpu_model, fnlocals, calls, history>>

main_chdir ==
    /\ pc = "chdir"
    /\ calls' = Append(calls, Call("chdir", "/output"))
    /\ IF output_exists
       THEN Goto("ensure_model_directory_exists") /\ cwd' = "/output"
       ELSE Raise("Exception", "FileNotFoundError") /\ UNCHANGED cwd
    /\ UNCHANGED <<output_exists, model_dir_exists, files, mainlocals, fnlocals, history>>

ensure_model_directory_exists ==
    /\ pc = "ensure_model_directory_exists"
    /\ IF ~model_dir_exists
       THEN /\ calls' = Append(calls, Call("makedirs", "model_dir"))
            /\ model_dir_exists' = TRUE
       ELSE UNCHANGED <<calls, model_dir_exists>>
    /\ Goto("download_and_check_label_file")
    /\ UNCHANGED <<output_exists, files, cwd, mainlocals, fnlocals, history>>

download_and_check_label_file ==
    /\ pc = "download_and_check_label_file"
    /\ IF ~os_path_isfile("label_file")
       THEN run_curl_command(LabelBase, "label_file", "get_gpu_model")
       ELSE Goto("get_gpu_model") /\ UNCHANGED <<files, calls>>
    /\ UNCHANGED <<output_exists, model_dir_exists, cwd, mainlocals, fnlocals, history>>

get_gpu_model ==
    /\ pc = "get_gpu_model"
    /\ calls' = Append(calls, Call("nvidia-smi", "-L"))
    /\ \/ Raise("ScriptError", "Error retrieving GPU model") /\ UNCHANGED gpu_model
       \/ \E stdout \in NvidiaSmiOutputs :
            Goto("download_and_check_model_file") /\ gpu_model' = gpu_regex(stdout)
    /\ UNCHANGED <<fsvars, model_dir_configmap, model_version, dockerconfigjson,
                   jfrog_env, username, password, fnlocals, history>>

----------------------------------------------------------------------------
\* download_and_check_model_file(), one action per call it makes

\* main() returns normally: the interpreter exits with status 0.
Return ==
    /\ pc' = "exited"
    /\ exit_code' = 0
    /\ UNCHANGED err

\* The variant selection of lines 88-97.
SelectVariant ==
    IF gpu_model.isNone
    THEN Raise("Exception", "TypeError") /\ UNCHANGED local_path
    ELSE IF Contains(gpu_model.str, <<"A", "2">>)
    THEN Goto("model_run_curl_command") /\ local_path' = A2Base
    ELSE IF Contains(gpu_model.str, <<"A", "1", "6">>)
    THEN Goto("model_run_curl_command") /\ local_path' = A16Base
    ELSE Raise("ScriptError", "Unsupported GPU model") /\ UNCHANGED local_path

\* The variant is selected before the existence test instead of under it.
download_and_check_model_file_selects_first ==
    /\ pc = "download_and_check_model_file"
    /\ IF /\ os_path_isfile("model_file")
          /\ ~gpu_model.isNone
          /\ \/ Contains(gpu_model.str, <<"A", "2">>)
             \/ Contains(gpu_model.str, <<"A", "1", "6">>)
       THEN Return /\ UNCHANGED local_path
       ELSE SelectVariant
    /\ UNCHANGED <<fsvars, mainlocals, jfrog_checksum, calls, history>>

download_and_check_model_file ==
    /\ pc = "download_and_check_model_file"
    /\ IF ~os_path_isfile("model_file")
       THEN SelectVariant
       ELSE Return /\ UNCHANGED local_path
    /\ UNCHANGED <<fsvars, mainlocals, jfrog_checksum, calls, history>>

model_run_curl_command ==
    /\ pc = "model_run_curl_command"
    /\ run_curl_command(local_path, local_path, "model_get_jfrog_checksum")
    /\ UNCHANGED <<output_exists, model_dir_exists, cwd, mainlocals, fnlocals, history>>

\* get_jfrog_checksum: any failure of curl or of the JSON lookups is a
\* ScriptError; otherwise the reported checksums.md5 is returned.
model_get_jfrog_checksum ==
    /\ pc = "model_get_jfrog_checksum"
    /\ calls' = Append(calls, Call("curl api", local_path))
    /\ \/ Raise("ScriptError", "Error fetching JFrog checksum") /\ UNCHANGED jfrog_checksum
       \/ \E d \in ReportedDigests :
            Goto("model_verify_md5") /\ jfrog_checksum' = d
    /\ UNCHANGED <<fsvars, mainlocals, local_path, history>>

\* A mismatch removes the model directory and the download before raising.
model_verify_md5_with_cleanup ==
    /\ pc = "model_verify_md5"
    /\ IF verify_md5(files[local_path], jfrog_checksum)
       THEN Goto("model_rename") /\ UNCHANGED <<files, model_dir_exists>>
       ELSE /\ Raise("ScriptError", "MD5 check failed")
            /\ model_dir_exists' = FALSE
            /\ files' = [files EXCEPT !["label_file"] = Absent, !["model_file"] = Absent,
                                      ![local_path] = Absent]
    /\ UNCHANGED <<output_exists, cwd, mainlocals, fnlocals, calls, history>>

model_verify_md5 ==
    /\ pc = "model_verify_md5"
    /\ IF verify_md5(files[local_path], jfrog_checksum)
       THEN Goto("model_rename")
       ELSE Raise("ScriptError", "MD5 check failed")
    /\ UNCHANGED <<fsvars, mainlocals, fnlocals, calls, history>>

\* os.rename(local_path, model_file); an OSError is not wrapped in ScriptError.
model_rename ==
    /\ pc = "model_rename"
    /\ calls' = Append(calls, Call("rename", "model_file"))
    /\ \/ Raise("Exception", "OSError") /\ UNCHANGED files
       \/ /\ files' = [files EXCEPT ![local_path] = Absent,
                                    !["model_file"] = files[local_path]]
          /\ Return
    /\ UNCHANGED <<output_exists, model_dir_exists, cwd, mainlocals, fnlocals, history>>

----------------------------------------------------------------------------
\* The script is invoked again on the same volume and config.

Rerun ==
    /\ pc = "exited"
    /\ run < MaxRuns
    /\ run' = run + 1
    /\ prev_exit' = exit_code
    /\ start_files' = files
    /\ pc' = "read_yaml_config"
    /\ exit_code' = -1
    /\ err' = NoErr
    /\ cwd' = "/"
    /\ model_dir_configmap' = <<>>
    /\ model_version' = <<>>
    /\ dockerconfigjson' = UnsetDockerConfig
    /\ jfrog_env' = None
    /\ username' = None
    /\ password' = None
    /\ gpu_model' = NoGpu
    /\ local_path' = None
    /\ jfrog_checksum' = None
    /\ calls' = <<>>
    /\ UNCHANGED <<config_file, output_exists, model_dir_exists, files>>

Next ==
    \/ main_read_yaml_config
    \/ main_extract_model_version
    \/ main_getenv
    \/ main_get_auth_credentials
    \/ main_chdir
    \/ ensure_model_directory_exists
    \/ download_and_check_label_file
    \/ get_gpu_model
    \/ download_and_check_model_file
    \/ model_run_curl_command
    \/ model_get_jfrog_checksum
    \/ model_verify_md5
    \/ model_rename
    \/ Rerun

Spec == Init /\ [][Next]_vars

----------------------------------------------------------------------------
\* Vocabulary of the properties

\* The calls of main() in program order.
StepOrder ==
    <<"read_yaml_config", "extract_model_version", "getenv", "get_auth_credentials",
      "chdir", "ensure_model_directory_exists", "download_and_check_label_file",
      "get_gpu_model", "download_and_check_model_file", "model_run_curl_command",
      "model_get_jfrog_checksum", "model_verify_md5", "model_rename">>

StepIndex(step) == CHOOSE i \in 1..Len(StepOrder) : StepOrder[i] = step

\* The call `step` has been made and has returned or raised.
Executed(step) ==
    IF pc = "exited"
    THEN err = NoErr \/ StepIndex(err.at) >= StepIndex(step)
    ELSE StepIndex(pc) > StepIndex(step)

\* The call `step` has been made and has returned normally.
Returned(step) == Executed(step) /\ err.at # step

Made(op, arg) == \E i \in 1..Len(calls) : calls[i].op = op /\ calls[i].arg = arg

NetworkCalls == {i \in 1..Len(calls) : calls[i].op \in {"curl -O", "curl api"}}

StepsAfterLabel ==
    {"get_gpu_model", "download_and_check_model_file", "model_run_curl_command",
     "model_get_jfrog_checksum", "model_verify_md5", "model_rename"}

\* The path contains /output/deepstream_models/<V>/ with a non-empty <V>:
\* the literal, then at least one character other than "/", then a "/".
SegmentStart(s) == SetMin(LookbehindOffsets(s))
SegmentLengths(s) ==
    {k \in 0..(Len(s) - SegmentStart(s) - 1) : s[SegmentStart(s) + k + 1] = "/"}
HasVersionSegment(s) ==
    /\ LookbehindOffsets(s) # {}
    /\ SegmentLengths(s) # {}
    /\ SetMin(SegmentLengths(s)) > 0
\* <V>: the characters between the literal and the next "/".
VersionSegment(s) ==
    SubSeq(s, SegmentStart(s) + 1, SegmentStart(s) + SetMin(SegmentLengths(s)))

\* main() holds the version the config path names (the cases in which the
\* greedy `.*` and the segment up to the next "/" coincide).
WellFormedVersion ==
    /\ HasVersionSegment(model_dir_configmap)
    /\ model_version = VersionSegment(model_dir_configmap)

----------------------------------------------------------------------------
\* C1: for every config path containing /output/deepstream_models/<V>/...,
\* extract_model_version returns exactly <V>, the segment up to the next "/",
\* also when further "/"-separated segments follow.
C1_ReturnsExactlyTheSegment ==
    (Executed("extract_model_version") /\ HasVersionSegment(model_dir_configmap))
        => /\ Returned("extract_model_version")
           /\ model_version = VersionSegment(model_dir_configmap)

\* C8: extract_model_version never returns an empty version: past the
\* extraction main() holds a non-empty model_version.
C8_VersionNeverEmpty ==
    Returned("extract_model_version") => model_version # <<>>

\* C2: with the model file absent, a GPU string containing "A2" selects the
\* A2 artifact, one containing "A16" selects the A16 artifact, and every other
\* probe result (None included) is the ScriptError "Unsupported GPU model"
\* with no download attempted.
C2_VariantSelection ==
    (/\ Executed("download_and_check_model_file")
     /\ start_files["model_file"] = Absent
     /\ WellFormedVersion)
        => LET isA2 == ~gpu_model.isNone /\ Contains(gpu_model.str, <<"A", "2">>)
               isA16 == ~gpu_model.isNone /\ Contains(gpu_model.str, <<"A", "1", "6">>)
           IN  /\ isA2 => local_path = A2Base
               /\ isA16 => local_path = A16Base
               /\ (~isA2 /\ ~isA16) =>
                     /\ err.kind = "ScriptError"
                     /\ err.msg = "Unsupported GPU model"
                     /\ err.at = "download_and_check_model_file"
                     /\ ~Made("curl -O", A2Base)
                     /\ ~Made("curl -O", A16Base)

\* C7: a label file downloaded by this run is verified against the storage
\* API's checksum before main() goes on to the GPU probe.
C7_LabelVerifiedBeforeProbe ==
    (/\ Made("curl -O", LabelBase)
     /\ Returned("download_and_check_label_file")
     /\ WellFormedVersion)
        => Made("curl api", LabelBase)

----------------------------------------------------------------------------
\* C3: the final model path is created by a run only with content whose MD5
\* equals the checksum the storage API reported; on a mismatch the process
\* exits 1, the download stays under its variant name and the final model
\* path does not come into existence.
C3_RenameOnlyAfterVerification ==
    /\ (local_path # None /\ files["model_file"] # Absent)
          => /\ jfrog_checksum # None
             /\ hashlib_md5(files["model_file"]) = jfrog_checksum
             /\ Made("curl api", local_path)
    /\ (/\ local_path # None
        /\ Executed("model_verify_md5")
        /\ files[local_path] # Absent
        /\ hashlib_md5(files[local_path]) # jfrog_checksum)
          => /\ pc = "exited"
             /\ exit_code = 1
             /\ err.at = "model_verify_md5"
             /\ files["model_file"] = Absent
             /\ ~Made("rename", "model_file")

\* The downloaded engine failed verification and was left under its variant name.
C3_Witness ==
    /\ pc = "exited"
    /\ exit_code = 1
    /\ err.msg = "MD5 check failed"
    /\ local_path = A16Base
    /\ files[A16Base] # Absent
    /\ hashlib_md5(files[A16Base]) # jfrog_checksum
    /\ files["model_file"] = Absent

\* A step of either download function taken with its target file present.
SkipStep ==
    /\ (pc = "download_and_check_label_file" /\ files["label_file"] # Absent)
          => /\ pc' = "get_gpu_model"
             /\ files' = files
             /\ calls' = calls
             /\ err' = NoErr
             /\ exit_code' = -1
    /\ (pc = "download_and_check_model_file" /\ files["model_file"] # Absent)
          => /\ pc' = "exited"
             /\ exit_code' = 0
             /\ err' = NoErr
             /\ files' = files
             /\ calls' = calls

\* C4: when the label file (the model file) already exists at its destination,
\* download_and_check_label_file (download_and_check_model_file) makes no
\* network call, changes no file and returns normally, whatever the GPU string
\* and the credentials are.
C4_SkipIfExists == [][SkipStep]_vars

\* Both files existed, the probe found no GPU name, and the run still succeeded
\* without any download.
C4_Witness ==
    /\ pc = "exited"
    /\ exit_code = 0
    /\ Made("nvidia-smi", "-L")
    /\ gpu_model.isNone
    /\ NetworkCalls = {}
    /\ files = start_files

\* The claim's "empty or absent username or password, or missing registry key".
BadCredentials(d, e) ==
    \/ d.kind # "json"
    \/ e \notin d.registries
    \/ d.username \in {FieldAbsent, ""}
    \/ d.password \in {FieldAbsent, ""}

\* C5: get_auth_credentials fails for every blob and registry name with an
\* empty or absent username or password or a missing registry key; whenever it
\* returns both are non-empty; on failure main() has made no chdir, directory
\* creation, probe or network call.
C5_NoPartialCredentials ==
    /\ (Executed("get_auth_credentials") /\ BadCredentials(dockerconfigjson, jfrog_env))
          => /\ pc = "exited"
             /\ exit_code = 1
             /\ err.at = "get_auth_credentials"
             /\ username = None
             /\ password = None
             /\ calls = <<>>
             /\ cwd = "/"
             /\ files = start_files
    /\ Returned("get_auth_credentials")
          => /\ username \notin {None, FieldAbsent, ""}
             /\ password \notin {None, FieldAbsent, ""}

\* The password is empty while the username is not: ScriptError, nothing done.
C5_Witness ==
    /\ pc = "exited"
    /\ err.at = "get_auth_credentials"
    /\ err.kind = "ScriptError"
    /\ dockerconfigjson.username = "u"
    /\ dockerconfigjson.password = ""
    /\ calls = <<>>

\* C6: the exit status is 0 exactly when every step succeeded and 1 when any
\* step failed, ScriptError or not; after the failing step no later step runs.
C6_ExitStatus ==
    /\ pc # "exited" => (exit_code = -1 /\ err = NoErr)
    /\ pc = "exited" =>
          /\ exit_code \in {0, 1}
          /\ exit_code = 0 <=> err = NoErr
          /\ exit_code = 0 =>
                /\ cwd = "/output"
                /\ model_dir_exists
                /\ files["label_file"] # Absent
                /\ files["model_file"] # Absent
                /\ username # None
          /\ err # NoErr =>
                /\ err.kind \in {"ScriptError", "Exception"}
                /\ \A i \in 1..Len(calls) :
                      StepIndex(calls[i].step) <= StepIndex(err.at)

\* An exception other than ScriptError, raised by the last call of the run.
C6_Witness ==
    /\ pc = "exited"
    /\ exit_code = 1
    /\ err.kind = "Exception"
    /\ err.at = "model_rename"

\* A step after the label step keeps the label file and the directories.
KeepsStagedFiles ==
    pc \in StepsAfterLabel
        => /\ files'["label_file"] = files["label_file"]
           /\ model_dir_exists' = model_dir_exists
           /\ output_exists' = output_exists

\* C9: no rollback: every step after the label step, failing or not, leaves
\* the label file at its destination and the model directory as they are, so
\* they are in place and unchanged when the process exits 1.
C9_NoRollback == [][KeepsStagedFiles]_vars

\* This run created the directory and placed the label file, then failed.
C9_Witness ==
    /\ pc = "exited"
    /\ exit_code = 1
    /\ err.at = "model_verify_md5"
    /\ Made("makedirs", "model_dir")
    /\ Made("curl -O", LabelBase)
    /\ model_dir_exists
    /\ files["label_file"] # Absent

\* C10: in a run that follows a run that exited 0 (same config, same volume)
\* there is no download and no checksum request, the label and model files
\* stay as they are, and the run exits 0 unless the config, the credentials
\* or the probe tool fail, whatever GPU string the probe returns.
C10_RerunIdempotent ==
    (run > 1 /\ prev_exit = 0)
        => /\ NetworkCalls = {}
           /\ files["label_file"] # Absent
           /\ files["model_file"] # Absent
           /\ files["label_file"] = start_files["label_file"]
           /\ files["model_file"] = start_files["model_file"]
           /\ pc = "exited" =>
                 \/ exit_code = 0
                 \/ err.at \in {"read_yaml_config", "extract_model_version", "getenv",
                                "get_auth_credentials", "get_gpu_model"}

\* A second run, after a successful one, on a GPU neither variant supports.
C10_Witness ==
    /\ run > 1
    /\ prev_exit = 0
    /\ pc = "exited"
    /\ exit_code = 0
    /\ ~gpu_model.isNone
    /\ Contains(gpu_model.str, <<"A", "1", "0", "0">>)

====
